---- MODULE Spec2Model ----
(***************************************************************************)
(* Model of the MSEDCL vendor monitor bot (src/bot.py, src/database.py).   *)
(*                                                                         *)
(* run_monitor_job and check_vendor_status are asyncio coroutines: they    *)
(* only yield at an await.  A step of check_vendor_status is the code that *)
(* runs between two of its awaits; each step is an operator giving the set *)
(* of its outcomes.                                                        *)
(*                                                                         *)
(*   ProbeSpec  one call of check_vendor_status, step by step, with the    *)
(*              dialog listener firing between the steps.                  *)
(*   Spec       the repeating run_monitor_job.  Nothing of the job runs    *)
(*              while it awaits check_vendor_status, so the call is one    *)
(*              action whose outcomes (ProbeResults) are the runs of the   *)
(*              same steps.                                                *)
(*              The pc "loop" is the end of one subscriber's iteration.    *)
(***************************************************************************)
EXTENDS Integers, Sequences, FiniteSets, TLC

\* ------------------------------------------------------------ bounds
NumChats == 2
MaxOptions == 2

Chats == 1..NumChats

\* The jobs of the JobQueue: the repeating one of main(), the one-shot one of /add.
Jobs == {"repeating", "oneshot"}

\* ------------------------------------------------------------ values
BENEFICIARIES ==
  <<"MT4420500385451", "MT4420500385452", "MT4420500385453", "MT4420500385454">>

None == "None"

QUOTA_PHRASE == "All Empanelled Vendors Quota Exceeded"

\* A dialog message, as the sequence of its phrases.
DialogMessages == { <<QUOTA_PHRASE>>, <<"Alert:", QUOTA_PHRASE>>, <<"Session expired">> }

\* `phrase in message`
Contains(phrase, message) == \E i \in 1..Len(message) : message[i] = phrase

\* The exceptions a Playwright call raises: class and str(e).
TimeoutError == [cls |-> "TimeoutError", msg |-> "Timeout 30000ms exceeded"]
PageError == [cls |-> "Error", msg |-> "net::ERR_CONNECTION_RESET"]
Exceptions == {TimeoutError, PageError}

ErrorStatus(msg) == "Error: " \o msg

ScreenshotPath(beneficiary_id) == "screenshot_" \o beneficiary_id \o ".png"
ErrorPath(beneficiary_id) == "error_" \o beneficiary_id \o ".png"

\* A row of the users table (the columns the bot reads), and "no such row".
Row(beneficiary_id, status) ==
  [beneficiary_id |-> beneficiary_id, last_known_status |-> status]
NoRow == Row(None, None)

\* What the site shows after the vendor search: the quotaMsg element, and the
\* #VendorCode dropdown (-1: not visible, else its number of options).
Pages == [quotaMsg : BOOLEAN, dropdown : -1..MaxOptions]
NoPage == [quotaMsg |-> FALSE, dropdown |-> -1]

VARIABLES
  store,        \* the users table: chat_id -> row
  files,        \* the screenshot files on disk
  job,          \* each job's coroutine state
  undelivered,  \* chat_id -> the status whose notification failed to be sent
  handler,      \* the add_beneficiary call being handled: its locals
  scheduled,    \* the one-shot jobs of the JobQueue that have not run yet, by chat_id
  call,         \* the last call of a database function, and what it returned
  monitor       \* vendor_monitor.py: the locals of main() and check_vendor_status

vars == <<store, files, job, undelivered, handler, scheduled, call, monitor>>

\* What run_monitor_job and check_vendor_status of bot.py never touch.
outside == <<handler, scheduled, call, monitor>>

\* ------------------------------------------------------------ database.py
get_all_users == store

\* update_user_status without its conn.commit(): the UPDATE is lost.
update_user_status_uncommitted(chat_id, new_status) == store

update_user_status(chat_id, new_status) ==
  [store EXCEPT ![chat_id] =
     IF @ = NoRow THEN @ ELSE [@ EXCEPT !.last_known_status = new_status]]

\* The chats whose row holds beneficiary_id (the UNIQUE column).
Owners(beneficiary_id) == {c \in Chats : store[c].beneficiary_id = beneficiary_id}

\* INSERT OR REPLACE INTO users (chat_id, beneficiary_id): the row is rewritten, and
\* last_known_status falls back to its DEFAULT.
insert_or_replace(chat_id, beneficiary_id) ==
  [store EXCEPT ![chat_id] = Row(beneficiary_id, "Unknown")]

\* INSERT INTO users (chat_id, beneficiary_id) ... ON CONFLICT(chat_id) DO UPDATE SET
\* beneficiary_id = excluded.beneficiary_id: a new row gets the DEFAULT 'Unknown',
\* an existing row keeps every other column.
upsert(chat_id, beneficiary_id) ==
  IF store[chat_id] = NoRow
  THEN [store EXCEPT ![chat_id] = Row(beneficiary_id, "Unknown")]
  ELSE [store EXCEPT ![chat_id].beneficiary_id = beneficiary_id]

\* What a call of a database function did: what it returned, the exception it
\* caught, and the table it left.
Outcome(returned, exc, table) == [returned |-> returned, exc |-> exc, store |-> table]

\* the users table without UNIQUE on beneficiary_id: the statement always succeeds
add_or_update_user_not_unique(chat_id, beneficiary_id) ==
  { Outcome(TRUE, None, upsert(chat_id, beneficiary_id)),
    Outcome(FALSE, "sqlite3.Error", store) }

\* add_or_update_user: the statement commits (True); or it violates UNIQUE
\* (beneficiary_id is in another chat's row: IntegrityError, False); or sqlite raises
\* another sqlite3.Error (False).  Nothing is committed in the last two cases.
add_or_update_user(chat_id, beneficiary_id) ==
  { IF Owners(beneficiary_id) \ {chat_id} # {}
    THEN Outcome(FALSE, "IntegrityError", store)
    ELSE Outcome(TRUE, None, upsert(chat_id, beneficiary_id)),
    Outcome(FALSE, "sqlite3.Error", store) }

\* ------------------------------------------------------------ check_vendor_status
\* The locals of one call.  page is what the site shows, seen the value of
\* dialog_found read by `if dialog_found`, captured the files the call has written,
\* fault the place an exception left the call from.
NoProbe ==
  [pc |-> "none", beneficiary_id |-> None, status |-> "Unknown",
   screenshot_path |-> None, dialog_found |-> FALSE, seen |-> FALSE,
   option_count |-> -1, page |-> NoPage, exc |-> None, browser |-> None,
   captured |-> {}, fault |-> None]

\* status = "Unknown"; screenshot_path = None; dialog_found = False
StartProbe(beneficiary_id) ==
  [NoProbe EXCEPT !.pc = "launch", !.beneficiary_id = beneficiary_id]

\* Playwright started without its context manager (p = await async_playwright().start()):
\* nothing stops it when an exception leaves the function.
playwright_left_running(browser) == browser

\* The exit of `async with async_playwright() as p`: Playwright is stopped, and its
\* driver closes the browser it launched before the exit completes.
async_playwright_exit(browser) == IF browser = "open" THEN "closed" ELSE browser

\* An exception leaves check_vendor_status, through the exit of the async with block.
Raise(p, fault) ==
  [p EXCEPT !.pc = "raised", !.fault = fault, !.browser = async_playwright_exit(@)]

\* except Exception as e (the outer handler)
Caught(p, e) ==
  [p EXCEPT !.pc = "err_shot", !.status = ErrorStatus(e.msg), !.exc = e.msg,
            !.screenshot_path = ErrorPath(p.beneficiary_id)]

\* except TimeoutError (the handler around the dropdown block)
NoDropdown(p) == [p EXCEPT !.pc = "close", !.status = "Not Available"]

\* An exception raised inside the dropdown block.
RaisedInBlock(p, e) == IF e.cls = "TimeoutError" THEN NoDropdown(p) ELSE Caught(p, e)

\* Each step maps the locals p to the set of its outcomes.

\* async with async_playwright() as p: browser = await p.chromium.launch(...)
LaunchStep(p) ==
  { [p EXCEPT !.pc = "new_page", !.browser = "open"], Raise(p, "launch") }

\* page = await browser.new_page(); page.on("dialog", handle_dialog)
NewPageStep(p) ==
  { [p EXCEPT !.pc = "interact"], Raise(p, "new_page") }

\* goto, fill, click, wait_for(#searchVendorBtn), click
InteractStep(p) ==
  { [p EXCEPT !.pc = "settle", !.page = page] : page \in Pages }
  \cup { Caught(p, e) : e \in Exceptions }

\* handle_dialog: a dialog of the page, while the listener is registered
ListenerPcs == {"interact", "settle", "dd_wait", "count", "expand", "shot", "err_shot"}

DialogStep(p) ==
  IF p.pc \in ListenerPcs
  THEN { [p EXCEPT !.dialog_found = @ \/ Contains(QUOTA_PHRASE, message)] :
           message \in DialogMessages } \ {p}
  ELSE {}

\* await page.wait_for_timeout(2000); if dialog_found:
SettleStep(p) ==
  { IF p.dialog_found
    THEN [p EXCEPT !.pc = "close", !.seen = TRUE, !.status = "Not Available"]
    ELSE [p EXCEPT !.pc = "dd_wait"] }

\* await vendor_dropdown.wait_for(state="visible", timeout=5000)
DropdownWaitStep(p) ==
  { IF p.page.dropdown >= 0 THEN [p EXCEPT !.pc = "count"]
    ELSE RaisedInBlock(p, TimeoutError),
    RaisedInBlock(p, PageError) }

\* the threshold off by one: if option_count >= 1
HasVendorsFromOne(option_count) == option_count >= 1

\* if option_count > 1
HasVendors(option_count) == option_count > 1

\* option_count = await vendor_dropdown.locator("option").count()
CountStep(p) ==
  { LET option_count == p.page.dropdown IN
    IF HasVendors(option_count)
    THEN [p EXCEPT !.pc = "expand", !.option_count = option_count,
                   !.status = "Available"]
    ELSE [p EXCEPT !.pc = "close", !.option_count = option_count,
                   !.status = "Not Available"],
    RaisedInBlock(p, PageError) }

\* page.evaluate(...size = option_count), wait_for_timeout(500), screenshot_path = ...
ExpandStep(p) ==
  { [p EXCEPT !.pc = "shot", !.screenshot_path = ScreenshotPath(p.beneficiary_id)],
    RaisedInBlock(p, PageError) }

\* await page.screenshot(path=screenshot_path)
ScreenshotStep(p) ==
  { [p EXCEPT !.pc = "close", !.captured = @ \cup {p.screenshot_path}] }
  \cup { RaisedInBlock(p, e) : e \in Exceptions }

\* the error screenshot: await page.screenshot(path=screenshot_path), or its failure logged
ErrorScreenshotStep(p) ==
  { [p EXCEPT !.pc = "close", !.captured = @ \cup {p.screenshot_path}],
    [p EXCEPT !.pc = "close"] }

\* finally: await browser.close(); return status, screenshot_path
CloseStep(p) ==
  { [p EXCEPT !.pc = "returned", !.browser = "closed"] }

ProgramStep(p) ==
  CASE p.pc = "launch" -> LaunchStep(p)
    [] p.pc = "new_page" -> NewPageStep(p)
    [] p.pc = "interact" -> InteractStep(p)
    [] p.pc = "settle" -> SettleStep(p)
    [] p.pc = "dd_wait" -> DropdownWaitStep(p)
    [] p.pc = "count" -> CountStep(p)
    [] p.pc = "expand" -> ExpandStep(p)
    [] p.pc = "shot" -> ScreenshotStep(p)
    [] p.pc = "err_shot" -> ErrorScreenshotStep(p)
    [] p.pc = "close" -> CloseStep(p)
    [] OTHER -> {}

\* Every way one call can end: the locals at its return, or at the exception.
RECURSIVE Run(_)
Run(p) ==
  IF p.pc \in {"returned", "raised"} THEN {p}
  ELSE UNION { Run(q) : q \in ProgramStep(p) \cup DialogStep(p) }

\* What the caller gets: the returned pair (or the exception) and the files written.
Result(p) ==
  [fault |-> p.fault, status |-> p.status, screenshot_path |-> p.screenshot_path,
   captured |-> p.captured]

ProbeResults ==
  [b \in {BENEFICIARIES[c] : c \in Chats} |-> { Result(p) : p \in Run(StartProbe(b)) }]

\* ------------------------------------------------------------ job state
\* for user in users: rows come in chat_id order
UsersAfter(users, chat) == {c \in Chats : c > chat /\ users[c] # NoRow}
NextUser(users, chat) ==
  IF UsersAfter(users, chat) = {} THEN 0
  ELSE CHOOSE c \in UsersAfter(users, chat) : \A d \in UsersAfter(users, chat) : c <= d

\* The locals of run_monitor_job.  wrote and notified record what the current
\* iteration has done (update_user_status called, sends begun); fault the place an
\* exception left the job from; probe the locals of the call it awaits.
IdleJob ==
  [pc |-> "idle", users |-> [c \in Chats |-> NoRow], chat |-> 0, probed |-> {},
   current_status |-> None, screenshot |-> None,
   wrote |-> FALSE, notified |-> 0, fault |-> None, probe |-> NoProbe]

\* The head of one loop iteration, up to the await of check_vendor_status.
BeginIteration(r, chat) ==
  [r EXCEPT !.pc = "probing", !.chat = chat, !.current_status = None,
            !.screenshot = None, !.wrote = FALSE, !.notified = 0, !.fault = None,
            !.probe = NoProbe]

beneficiary_id(r) == r.users[r.chat].beneficiary_id
last_status(r) == r.users[r.chat].last_known_status

\* An exception leaves run_monitor_job.
Propagate(r, fault) == [r EXCEPT !.pc = "raised", !.fault = fault]

Running(j) == job[j].pc \notin {"idle", "done", "raised"}

\* ------------------------------------------------------------ outside the jobs
\* The locals of add_beneficiary: args is context.args, called whether
\* add_or_update_user was called, success what it returned, reply the text of
\* reply_text.
IdleHandler ==
  [pc |-> "idle", chat_id |-> 0, args |-> <<>>, beneficiary_id |-> None,
   called |-> FALSE, success |-> FALSE, reply |-> None]

\* No database function has been called.
NoCall ==
  [fn |-> None, chat_id |-> 0, beneficiary_id |-> None, new_status |-> None,
   returned |-> FALSE, exc |-> None, before |-> <<>>]

\* vendor_monitor.py is not running.
NoMonitor ==
  [pc |-> "off", credentials |-> FALSE, quota_exceeded_found |-> FALSE,
   page_quota_found |-> FALSE, page |-> NoPage, option_count |-> -1,
   message |-> None, error |-> None, sent |-> {}]

\* No /add is being handled, no one-shot job is pending, the standalone monitor is off.
Quiet ==
  /\ handler = IdleHandler
  /\ scheduled = {}
  /\ call = NoCall
  /\ monitor = NoMonitor

Init ==
  /\ \E registered \in SUBSET Chats :
       store = [c \in Chats |->
                  IF c \in registered THEN Row(BENEFICIARIES[c], "Unknown") ELSE NoRow]
  /\ files = {}
  /\ job = [j \in Jobs |-> IdleJob]
  /\ undelivered = [c \in Chats |-> None]
  /\ Quiet

\* ------------------------------------------------------------ ProbeSpec
Take(j, outcomes) ==
  /\ job[j].pc = "probing"
  /\ \E q \in outcomes :
       /\ job' = [job EXCEPT ![j].probe = q]
       /\ files' = files \cup q.captured
  /\ UNCHANGED <<store, undelivered, outside>>

Launch(j) == job[j].probe.pc = "launch" /\ Take(j, LaunchStep(job[j].probe))
NewPage(j) == job[j].probe.pc = "new_page" /\ Take(j, NewPageStep(job[j].probe))
Interact(j) == job[j].probe.pc = "interact" /\ Take(j, InteractStep(job[j].probe))
handle_dialog(j) == job[j].probe.pc \in ListenerPcs /\ Take(j, DialogStep(job[j].probe))
Settle(j) == job[j].probe.pc = "settle" /\ Take(j, SettleStep(job[j].probe))
DropdownWait(j) == job[j].probe.pc = "dd_wait" /\ Take(j, DropdownWaitStep(job[j].probe))
Count(j) == job[j].probe.pc = "count" /\ Take(j, CountStep(job[j].probe))
Expand(j) == job[j].probe.pc = "expand" /\ Take(j, ExpandStep(job[j].probe))
Screenshot(j) == job[j].probe.pc = "shot" /\ Take(j, ScreenshotStep(job[j].probe))
ErrorScreenshot(j) ==
  job[j].probe.pc = "err_shot" /\ Take(j, ErrorScreenshotStep(job[j].probe))
Close(j) == job[j].probe.pc = "close" /\ Take(j, CloseStep(job[j].probe))

\* The job awaits check_vendor_status for one of its subscribers.
InitProbe ==
  /\ \E registered \in SUBSET Chats, status \in {"Unknown", "Available", "Not Available"} :
       store = [c \in Chats |->
                  IF c \in registered THEN Row(BENEFICIARIES[c], status) ELSE NoRow]
  /\ files \in SUBSET { ScreenshotPath(BENEFICIARIES[c]) : c \in {d \in Chats : store[d] # NoRow} }
  /\ \E c \in Chats :
       /\ store[c] # NoRow
       /\ job = [j \in Jobs |->
                   IF j = "repeating"
                   THEN [BeginIteration([IdleJob EXCEPT !.users = store], c)
                           EXCEPT !.probe = StartProbe(store[c].beneficiary_id)]
                   ELSE IdleJob]
  /\ undelivered = [c \in Chats |-> None]
  /\ Quiet

NextProbe == \E j \in {"repeating"} :
  \/ Launch(j)
  \/ NewPage(j)
  \/ Interact(j)
  \/ handle_dialog(j)
  \/ Settle(j)
  \/ DropdownWait(j)
  \/ Count(j)
  \/ Expand(j)
  \/ Screenshot(j)
  \/ ErrorScreenshot(j)
  \/ Close(j)

ProbeSpec == InitProbe /\ [][NextProbe]_vars

\* ------------------------------------------------------------ run_monitor_job
StartJob(j) ==
  /\ ~Running(j)
  /\ LET users == get_all_users
         r == [IdleJob EXCEPT !.users = users]
     IN job' = [job EXCEPT ![j] =
                  IF NextUser(users, 0) = 0 THEN [r EXCEPT !.pc = "done"]
                  ELSE BeginIteration(r, NextUser(users, 0))]
  /\ UNCHANGED <<store, files, undelivered, outside>>

\* the comparison dropped: every probe is dispatched as a change
StatusChangedAlways(current_status, last) == TRUE

\* if current_status != last_status
StatusChanged(current_status, last) == current_status # last

\* The synchronous code of run_monitor_job after check_vendor_status returned, up
\* to the await of the Telegram send: the comparison, update_user_status,
\* open(screenshot, 'rb').  r holds current_status and screenshot.
Dispatch(j, r) ==
  LET chat_id == r.chat
      w == [r EXCEPT !.wrote = TRUE]
  IN
  /\ undelivered' =
       [undelivered EXCEPT ![chat_id] = IF @ = r.current_status THEN @ ELSE None]
  /\ \/ /\ ~StatusChanged(r.current_status, last_status(r))
        /\ job' = [job EXCEPT ![j] = [r EXCEPT !.pc = "loop"]]
        /\ store' = store
     \/ /\ StatusChanged(r.current_status, last_status(r))
        /\ job' = [job EXCEPT ![j] = Propagate(r, "db")]
        /\ store' = store
     \/ /\ StatusChanged(r.current_status, last_status(r))
        /\ store' = update_user_status(chat_id, r.current_status)
        /\ job' = [job EXCEPT ![j] =
             IF r.screenshot # None
             THEN IF r.screenshot \in files'
                  THEN [w EXCEPT !.pc = "send_photo", !.notified = @ + 1]
                  ELSE Propagate(w, "open")
             ELSE [w EXCEPT !.pc = "send_message", !.notified = @ + 1]]

\* current_status, screenshot = await check_vendor_status(beneficiary_id), and the
\* code that follows it up to the next await.
CheckVendorStatus(j) ==
  /\ job[j].pc = "probing"
  /\ UNCHANGED outside
  /\ \E result \in ProbeResults[beneficiary_id(job[j])] :
       /\ files' = files \cup result.captured
       /\ \/ /\ result.fault # None
             /\ job' = [job EXCEPT ![j] = Propagate(@, result.fault)]
             /\ UNCHANGED <<store, undelivered>>
          \/ /\ result.fault = None
             /\ Dispatch(j, [job[j] EXCEPT !.current_status = result.status,
                                           !.screenshot = result.screenshot_path,
                                           !.probed = @ \cup {job[j].chat}])

\* await context.bot.send_photo(...) completes; os.remove(screenshot)
SendPhoto(j) ==
  /\ job[j].pc = "send_photo"
  /\ \/ /\ job' = [job EXCEPT ![j].pc = "loop"]
        /\ files' = files \ {job[j].screenshot}
        /\ undelivered' = undelivered
     \/ /\ job' = [job EXCEPT ![j] = Propagate(@, "remove")]
        /\ UNCHANGED <<files, undelivered>>
     \/ /\ job' = [job EXCEPT ![j] = Propagate(@, "send")]
        /\ undelivered' = [undelivered EXCEPT ![job[j].chat] = job[j].current_status]
        /\ files' = files
  /\ UNCHANGED <<store, outside>>

\* await context.bot.send_message(...) completes
SendMessage(j) ==
  /\ job[j].pc = "send_message"
  /\ \/ /\ job' = [job EXCEPT ![j].pc = "loop"]
        /\ undelivered' = undelivered
     \/ /\ job' = [job EXCEPT ![j] = Propagate(@, "send")]
        /\ undelivered' = [undelivered EXCEPT ![job[j].chat] = job[j].current_status]
  /\ UNCHANGED <<store, files, outside>>

\* for user in users: the next row, or the end of the job
Advance(j) ==
  /\ job[j].pc = "loop"
  /\ LET r == job[j] IN
     job' = [job EXCEPT ![j] =
       IF NextUser(r.users, r.chat) = 0
       THEN [IdleJob EXCEPT !.pc = "done", !.users = r.users, !.probed = r.probed]
       ELSE BeginIteration(r, NextUser(r.users, r.chat))]
  /\ UNCHANGED <<store, files, undelivered, outside>>

Next == \E j \in {"repeating"} :
  \/ StartJob(j)
  \/ CheckVendorStatus(j)
  \/ SendPhoto(j)
  \/ SendMessage(j)
  \/ Advance(j)

Spec == Init /\ [][Next]_vars
\* ------------------------------------------------------------ add_beneficiary
\* A string as the sequence of its characters.
IdLength == 15

Body == <<"4", "4", "2", "0", "5", "0", "0", "3", "8", "5", "4", "5">>
LastChar == <<"1", "2", "3", "4">>

RECURSIVE Join(_)
Join(chars) == IF chars = <<>> THEN "" ELSE Head(chars) \o Join(Tail(chars))

\* What a user may type after /add for the i-th identifier.
Typed(i) ==
  { <<"M", "T">> \o Body \o <<LastChar[i]>>,
    <<"m", "t">> \o Body \o <<LastChar[i]>>,
    <<" ">> \o <<"M", "t">> \o Body \o <<LastChar[i]>> \o <<" ">>,
    <<"X", "Y">> \o Body \o <<LastChar[i]>>,
    <<"M", "T">> \o Body \o <<LastChar[i], "0">>,
    <<"T", "M">> \o Body \o <<LastChar[i]>> }

\* context.args: no argument, or one argument
Arguments ==
  { <<>>, << <<"M", "T", "1", "2", "3">> >>, << <<"M", "T">> \o Body >> }
  \cup { <<typed>> : typed \in UNION { Typed(i) : i \in Chats } }

Whitespace == {" "}

\* str.strip()
RECURSIVE lstrip(_)
lstrip(chars) ==
  IF chars # <<>> /\ Head(chars) \in Whitespace THEN lstrip(Tail(chars)) ELSE chars

RECURSIVE rstrip(_)
rstrip(chars) ==
  IF chars # <<>> /\ chars[Len(chars)] \in Whitespace
  THEN rstrip(SubSeq(chars, 1, Len(chars) - 1)) ELSE chars

strip(chars) == rstrip(lstrip(chars))

\* str.upper()
upper(chars) ==
  [i \in 1..Len(chars) |->
     CASE chars[i] = "m" -> "M"
       [] chars[i] = "t" -> "T"
       [] OTHER -> chars[i]]

\* str.startswith(prefix)
startswith(chars, prefix) ==
  Len(chars) >= Len(prefix) /\ SubSeq(chars, 1, Len(prefix)) = prefix

\* the test with `and` for `or`: rejects only what fails both conditions
invalid_format_and(chars) == ~startswith(chars, <<"M", "T">>) /\ Len(chars) # IdLength

\* if not beneficiary_id.startswith("MT") or len(beneficiary_id) != 15
invalid_format(chars) == ~startswith(chars, <<"M", "T">>) \/ Len(chars) # IdLength

PROVIDE_ID == "Please provide a Beneficiary ID."
INVALID_FORMAT == "Invalid Beneficiary ID format."
SUCCESS == "Success! I will now monitor the Beneficiary ID"
ALREADY_MONITORED == "This Beneficiary ID is already being monitored by another user."

\* beneficiary_id = context.args[0].strip().upper(), for every argument list
Normalized ==
  [args \in Arguments \ {<<>>} |->
     LET chars == upper(strip(args[1])) IN [chars |-> chars, beneficiary_id |-> Join(chars)]]

\* add_beneficiary up to its await of reply_text: the checks and the call of the store.
AddBeneficiary(chat_id, args) ==
  /\ handler.pc = "idle"
  /\ LET h == [IdleHandler EXCEPT !.pc = "reply", !.chat_id = chat_id, !.args = args] IN
     IF args = <<>>
     THEN /\ handler' = [h EXCEPT !.reply = PROVIDE_ID]
          /\ store' = store
     ELSE LET id == Normalized[args].beneficiary_id IN
          IF invalid_format(Normalized[args].chars)
          THEN /\ handler' = [h EXCEPT !.beneficiary_id = id,
                                       !.reply = INVALID_FORMAT]
               /\ store' = store
          ELSE \E out \in add_or_update_user(chat_id, id) :
                 /\ store' = out.store
                 /\ handler' = [h EXCEPT !.beneficiary_id = id,
                                         !.called = TRUE,
                                         !.success = out.returned,
                                         !.reply = IF out.returned THEN SUCCESS
                                                   ELSE ALREADY_MONITORED]
  /\ UNCHANGED <<files, job, undelivered, scheduled, call, monitor>>

\* await update.message.reply_text(...) completes or raises; after the success
\* reply, context.job_queue.run_once(run_monitor_job, when=1, ...)
ReplyText ==
  /\ handler.pc = "reply"
  /\ handler' = IdleHandler
  /\ \/ scheduled' = IF handler.success THEN scheduled \cup {handler.chat_id}
                      ELSE scheduled
     \/ scheduled' = scheduled
  /\ UNCHANGED <<store, files, job, undelivered, call, monitor>>

\* The bot receives /add commands; no job runs.
InitAdd ==
  /\ store = [c \in Chats |-> NoRow]
  /\ files = {}
  /\ job = [j \in Jobs |-> IdleJob]
  /\ undelivered = [c \in Chats |-> None]
  /\ Quiet

NextAdd ==
  \/ \E chat_id \in Chats, args \in Arguments : AddBeneficiary(chat_id, args)
  \/ ReplyText

AddSpec == InitAdd /\ [][NextAdd]_vars

\* ------------------------------------------------------------ the bot
\* The whole bot: /add commands are handled while the repeating job and the one-shot
\* job of a registration run, each yielding at its awaits.  One run of the repeating
\* job and one registration with its one-shot job are followed, from any table
\* earlier runs may have left.

\* The JobQueue starts a one-shot job: run_monitor_job up to its first await.
RunOnce ==
  /\ scheduled # {}
  /\ job["oneshot"].pc = "idle"
  /\ \E chat_id \in scheduled : scheduled' = scheduled \ {chat_id}
  /\ LET users == get_all_users
         r == [IdleJob EXCEPT !.users = users]
     IN job' = [job EXCEPT !["oneshot"] =
                  IF NextUser(users, 0) = 0 THEN [r EXCEPT !.pc = "done"]
                  ELSE BeginIteration(r, NextUser(users, 0))]
  /\ UNCHANGED <<store, files, undelivered, handler, call, monitor>>

\* The JobQueue starts the repeating job.
RunRepeating ==
  /\ job["repeating"].pc = "idle"
  /\ StartJob("repeating")

\* /add with a well-formed identifier, as typed.
WellTyped == { << <<"M", "T">> \o Body \o <<LastChar[i]>> >> : i \in Chats }

InitBot ==
  /\ \E registered \in SUBSET Chats, status \in {"Unknown", "Available"} :
       store = [c \in Chats |->
                  IF c \in registered THEN Row(BENEFICIARIES[c], status) ELSE NoRow]
  /\ files = {}
  /\ job = [j \in Jobs |-> IdleJob]
  /\ undelivered = [c \in Chats |-> None]
  /\ Quiet

\* /add, until a registration has scheduled its one-shot job
Add ==
  /\ scheduled = {} /\ job["oneshot"].pc = "idle"
  /\ \E chat_id \in Chats, args \in WellTyped : AddBeneficiary(chat_id, args)

NextBot ==
  \/ Add
  \/ ReplyText
  \/ RunRepeating
  \/ RunOnce
  \/ \E j \in Jobs :
       \/ CheckVendorStatus(j)
       \/ SendPhoto(j)
       \/ SendMessage(j)
       \/ Advance(j)

BotSpec == InitBot /\ [][NextBot]_vars

\* ------------------------------------------------------------ the store alone
\* Calls of add_or_update_user and update_user_status in any order, for any chat;
\* call records the last one, and the table it found.  add_beneficiary and
\* run_monitor_job are the only callers, and run_monitor_job passes the status
\* check_vendor_status returned.
Identifiers == { BENEFICIARIES[1], BENEFICIARIES[2], BENEFICIARIES[3] }

\* current_status, screenshot = await check_vendor_status(beneficiary_id)
NewStatuses ==
  { result.status : result \in { r \in UNION { ProbeResults[b] : b \in DOMAIN ProbeResults } :
                                   r.fault = None } }

CallAddOrUpdateUser(chat_id, id) ==
  /\ \E out \in add_or_update_user(chat_id, id) :
       /\ store' = out.store
       /\ call' = [NoCall EXCEPT !.fn = "add_or_update_user", !.chat_id = chat_id,
                                 !.beneficiary_id = id, !.returned = out.returned,
                                 !.exc = out.exc, !.before = store]
  /\ UNCHANGED <<files, job, undelivered, handler, scheduled, monitor>>

CallUpdateUserStatus(chat_id, new_status) ==
  /\ \/ /\ store' = update_user_status(chat_id, new_status)
        /\ call' = [NoCall EXCEPT !.fn = "update_user_status", !.chat_id = chat_id,
                                  !.new_status = new_status, !.before = store]
     \/ /\ store' = store
        /\ call' = [NoCall EXCEPT !.fn = "update_user_status", !.chat_id = chat_id,
                                  !.new_status = new_status, !.exc = "sqlite3.Error",
                                  !.before = store]
  /\ UNCHANGED <<files, job, undelivered, handler, scheduled, monitor>>

\* initialize_database(): the table is created empty.
InitStore ==
  /\ store = [c \in Chats |-> NoRow]
  /\ files = {}
  /\ job = [j \in Jobs |-> IdleJob]
  /\ undelivered = [c \in Chats |-> None]
  /\ Quiet

NextStore ==
  \/ \E chat_id \in Chats, id \in Identifiers : CallAddOrUpdateUser(chat_id, id)
  \/ \E chat_id \in Chats, new_status \in NewStatuses : CallUpdateUserStatus(chat_id, new_status)

StoreSpec == InitStore /\ [][NextStore]_vars

\* ------------------------------------------------------------ vendor_monitor.py
\* The standalone monitor: main() owns one browser page and the status dict, and
\* calls check_vendor_status(page, status) in a loop.  The sync API dispatches a
\* dialog only while a Playwright call is waiting, so a step is one such call with
\* the code that follows it.  monitor.sent holds the notifications Telegram accepted
\* during the current check.
ACTION_REQUIRED == "ACTION REQUIRED"
ERROR_MESSAGE == "An error occurred in the script"

VENDOR_AVAILABLE_PNG == "vendor_available.png"
ERROR_SCREENSHOT_PNG == "error_screenshot.png"

Notification(method, message) == [method |-> method, message |-> message]

\* except Exception as e (the handler of check_vendor_status)
MonitorCaught(m, e) == [m EXCEPT !.pc = "error", !.error = e.msg, !.message = ERROR_MESSAGE]

\* if status['quota_exceeded_found'] or page_quota_found: ... else: message = ACTION REQUIRED
Decide(m) ==
  IF m.quota_exceeded_found \/ m.page_quota_found
  THEN [m EXCEPT !.pc = "done"]
  ELSE [m EXCEPT !.pc = "dropdown", !.message = ACTION_REQUIRED]

MonitorListenerPcs ==
  {"quota_wait", "dropdown", "count", "expand", "screenshot", "error"}

\* status['quota_exceeded_found'] = False; goto, fill, click, wait_for, click
MonitorInteract ==
  /\ monitor.pc = "check"
  /\ LET m == [monitor EXCEPT !.quota_exceeded_found = FALSE, !.page_quota_found = FALSE,
                              !.option_count = -1, !.message = None, !.error = None,
                              !.sent = {}]
     IN \/ \E page \in Pages : monitor' = [m EXCEPT !.pc = "quota_wait", !.page = page]
        \/ \E e \in Exceptions : monitor' = MonitorCaught(m, e)
  /\ UNCHANGED <<store, files, job, undelivered, handler, scheduled, call>>

\* handle_dialog of main(): a dialog of the page
monitor_handle_dialog ==
  /\ monitor.pc \in MonitorListenerPcs
  /\ \E message \in DialogMessages :
       monitor' = [monitor EXCEPT !.quota_exceeded_found = @ \/ Contains(QUOTA_PHRASE, message)]
  /\ UNCHANGED <<store, files, job, undelivered, handler, scheduled, call>>

\* quota_msg_element.wait_for(visible, 5000), inner_text(); then the decision
MonitorQuotaWait ==
  /\ monitor.pc = "quota_wait"
  /\ \/ monitor' = Decide([monitor EXCEPT !.page_quota_found = monitor.page.quotaMsg])
     \/ monitor' = MonitorCaught(monitor, PageError)
  /\ UNCHANGED <<store, files, job, undelivered, handler, scheduled, call>>

\* vendor_dropdown.wait_for(visible, 5000); its failure is caught and printed
MonitorDropdownWait ==
  /\ monitor.pc = "dropdown"
  /\ \/ monitor' = [monitor EXCEPT !.pc = IF monitor.page.dropdown >= 0 THEN "count"
                                          ELSE "screenshot"]
     \/ monitor' = [monitor EXCEPT !.pc = "screenshot"]
  /\ UNCHANGED <<store, files, job, undelivered, handler, scheduled, call>>

\* option_count = vendor_dropdown.locator("option").count(); if option_count > 1
MonitorCount ==
  /\ monitor.pc = "count"
  /\ \/ LET option_count == monitor.page.dropdown IN
        monitor' = [monitor EXCEPT !.option_count = option_count,
                                   !.pc = IF HasVendors(option_count) THEN "expand"
                                          ELSE "screenshot"]
     \/ monitor' = [monitor EXCEPT !.pc = "screenshot"]
  /\ UNCHANGED <<store, files, job, undelivered, handler, scheduled, call>>

\* vendor_dropdown.evaluate(...size = option_count); page.wait_for_timeout(1000)
MonitorExpand ==
  /\ monitor.pc = "expand"
  /\ monitor' = [monitor EXCEPT !.pc = "screenshot"]
  /\ UNCHANGED <<store, files, job, undelivered, handler, scheduled, call>>

\* page.screenshot(path="vendor_available.png")
MonitorScreenshot ==
  /\ monitor.pc = "screenshot"
  /\ \/ /\ monitor' = [monitor EXCEPT !.pc = "send_photo"]
        /\ files' = files \cup {VENDOR_AVAILABLE_PNG}
     \/ /\ \E e \in Exceptions : monitor' = MonitorCaught(monitor, e)
        /\ files' = files
  /\ UNCHANGED <<store, job, undelivered, handler, scheduled, call>>

\* page.screenshot(path="error_screenshot.png") in the handler; its failure falls
\* back to send_telegram_notification
MonitorErrorScreenshot ==
  /\ monitor.pc = "error"
  /\ \/ /\ monitor' = [monitor EXCEPT !.pc = "send_error_photo"]
        /\ files' = files \cup {ERROR_SCREENSHOT_PNG}
     \/ /\ monitor' = [monitor EXCEPT !.pc = "send_text"]
        /\ files' = files
  /\ UNCHANGED <<store, job, undelivered, handler, scheduled, call>>

\* send_photo_notification(message, photo_path): nothing without credentials; else
\* the post is accepted or not, and the file is removed.  after is where the caller
\* goes on, raised where an exception of os.remove takes it.
send_photo_notification(photo_path, after, raised) ==
  \/ /\ ~monitor.credentials
     /\ monitor' = [monitor EXCEPT !.pc = after]
     /\ files' = files
  \/ /\ monitor.credentials
     /\ \E accepted \in BOOLEAN :
          \/ /\ monitor' = [monitor EXCEPT !.pc = after,
                  !.sent = IF accepted
                           THEN @ \cup {Notification("sendPhoto", monitor.message)} ELSE @]
             /\ files' = files \ {photo_path}
          \/ /\ monitor' = [monitor EXCEPT !.pc = raised,
                  !.sent = IF accepted
                           THEN @ \cup {Notification("sendPhoto", monitor.message)} ELSE @,
                  !.message = ERROR_MESSAGE, !.error = "os.remove"]
             /\ files' = files

\* send_photo_notification(message, screenshot_path)
MonitorSendPhoto ==
  /\ monitor.pc = "send_photo"
  /\ send_photo_notification(VENDOR_AVAILABLE_PNG, "done", "error")
  /\ UNCHANGED <<store, job, undelivered, handler, scheduled, call>>

\* send_photo_notification(error_message, error_screenshot_path)
MonitorSendErrorPhoto ==
  /\ monitor.pc = "send_error_photo"
  /\ send_photo_notification(ERROR_SCREENSHOT_PNG, "done", "send_text")
  /\ UNCHANGED <<store, job, undelivered, handler, scheduled, call>>

\* send_telegram_notification(error_message)
MonitorSendText ==
  /\ monitor.pc = "send_text"
  /\ \E accepted \in BOOLEAN :
       monitor' = [monitor EXCEPT !.pc = "done",
          !.sent = IF monitor.credentials /\ accepted
                   THEN @ \cup {Notification("sendMessage", monitor.message)} ELSE @]
  /\ UNCHANGED <<store, files, job, undelivered, handler, scheduled, call>>

\* while datetime.now() < end_time: ... time.sleep(180)
MonitorSleep ==
  /\ monitor.pc = "done"
  /\ monitor' = [monitor EXCEPT !.pc = "check"]
  /\ UNCHANGED <<store, files, job, undelivered, handler, scheduled, call>>

\* main(): the browser is launched, the listener registered, the first check begins.
InitMonitor ==
  /\ store = [c \in Chats |-> NoRow]
  /\ files = {}
  /\ job = [j \in Jobs |-> IdleJob]
  /\ undelivered = [c \in Chats |-> None]
  /\ handler = IdleHandler
  /\ scheduled = {}
  /\ call = NoCall
  /\ \E credentials \in BOOLEAN :
       monitor = [NoMonitor EXCEPT !.pc = "check", !.credentials = credentials]

NextMonitor ==
  \/ MonitorInteract
  \/ monitor_handle_dialog
  \/ MonitorQuotaWait
  \/ MonitorDropdownWait
  \/ MonitorCount
  \/ MonitorExpand
  \/ MonitorScreenshot
  \/ MonitorErrorScreenshot
  \/ MonitorSendPhoto
  \/ MonitorSendErrorPhoto
  \/ MonitorSendText
  \/ MonitorSleep

MonitorSpec == InitMonitor /\ [][NextMonitor]_vars

\* ------------------------------------------------------------ the claims
ErrorStatuses == { ErrorStatus(e.msg) : e \in Exceptions }
SendPcs == {"send_photo", "send_message"}
Snapshot(r) == {c \in Chats : r.users[c] # NoRow}

\* The probe of the current subscriber has returned (current_status is bound).
Dispatched(r) == r.pc \in {"loop", "raised"} \cup SendPcs /\ r.current_status # None

\* The current subscriber's iteration is over: the loop goes on, or an exception
\* raised after the probe returned has left the job.
IterationOver(r) == r.pc \in {"loop", "raised"} /\ r.current_status # None

\* C1: in run_monitor_job, when the status check_vendor_status returned equals the
\* last_known_status read for the subscriber, the iteration sends no notification
\* (no send_photo, no send_message is begun), does not call update_user_status, and
\* the stored status is still the one read.
Thm_C1 ==
  \A j \in Jobs : LET r == job[j] IN
    (Dispatched(r) /\ r.current_status = last_status(r)) =>
       /\ r.pc = "loop"
       /\ r.notified = 0
       /\ ~r.wrote
       /\ store[r.chat].last_known_status = last_status(r)

\* C1 witness: the steady state 'Available' -> 'Available' went through without a send.
Witness_C1 ==
  \E j \in Jobs : LET r == job[j] IN
    /\ r.pc = "loop"
    /\ r.current_status = "Available"
    /\ last_status(r) = "Available"
    /\ r.notified = 0

\* C2: when a subscriber's status changes from A (resolved and stored by an earlier
\* cycle) to B, the store holds B when the notification attempt begins, and exactly
\* one notification is attempted in that iteration.
Claim_C2 ==
  \A j \in Jobs : LET r == job[j] IN
    /\ r.pc \in SendPcs => store[r.chat].last_known_status = r.current_status
    /\ (IterationOver(r) /\ r.wrote /\ last_status(r) # "Unknown") => r.notified = 1

\* C3: a probe whose interaction steps succeed and that sees the quota-exceeded
\* phrase only in a dialog (read by `if dialog_found`), or only in the on-page
\* quotaMsg element, resolves to 'Not Available', whatever the dropdown shows.
Claim_C3 ==
  \A j \in Jobs : LET p == job[j].probe IN
    (p.pc = "returned" /\ p.exc = None) =>
       /\ (p.seen /\ ~p.page.quotaMsg) => p.status = "Not Available"
       /\ (~p.dialog_found /\ p.page.quotaMsg) => p.status = "Not Available"

\* C4: a probe in which handle_dialog recorded a quota-exceeded dialog at any point
\* before its return never returns 'Available'.
Claim_C4 ==
  \A j \in Jobs : LET p == job[j].probe IN
    (p.pc = "returned" /\ p.dialog_found) => p.status # "Available"

\* C5: a probe returns 'Available' only if the dropdown is visible with more than
\* one option; when the interaction steps succeed and no quota-exceeded evidence is
\* seen, a dropdown with 0 or 1 option, or no dropdown, gives 'Not Available'.
Thm_C5 ==
  \A j \in Jobs : LET p == job[j].probe IN
    p.pc = "returned" =>
       /\ p.status = "Available" => p.page.dropdown > 1
       /\ (p.exc = None /\ ~p.dialog_found /\ ~p.page.quotaMsg /\ p.page.dropdown <= 1)
            => p.status = "Not Available"

\* C5 witness: the boundary, a visible dropdown with exactly one option.
Witness_C5 ==
  \E j \in Jobs : LET p == job[j].probe IN
    /\ p.pc = "returned"
    /\ p.exc = None /\ ~p.dialog_found /\ ~p.page.quotaMsg
    /\ p.option_count = 1
    /\ p.status = "Not Available"

\* C6: a probe that counted more than one option in the visible dropdown and
\* recorded no quota-exceeded evidence returns 'Available' with a screenshot path,
\* whatever happens to the display-only steps after the count.
Claim_C6 ==
  \A j \in Jobs : LET p == job[j].probe IN
    (p.pc = "returned" /\ p.option_count > 1 /\ ~p.dialog_found) =>
       (p.status = "Available" /\ p.screenshot_path # None)

\* C7: when the probe returned an Error status that differs from the stored one and
\* update_user_status has persisted it, the error notification is sent and no
\* exception leaves the job.
Claim_C7 ==
  \A j \in Jobs : LET r == job[j] IN
    (IterationOver(r) /\ r.current_status \in ErrorStatuses /\ r.wrote) =>
       (r.pc = "loop" /\ r.notified = 1
          /\ store[r.chat].last_known_status = r.current_status)

\* C8: when a run of run_monitor_job is over, every subscriber of its snapshot other
\* than the one whose handling failed has been probed.
Claim_C8 ==
  \A j \in Jobs : LET r == job[j] IN
    /\ r.pc = "done" => r.probed = Snapshot(r)
    /\ r.pc = "raised" => Snapshot(r) \ {r.chat} \subseteq r.probed

\* C9: after the send of the notification for a change to B has raised, and until a
\* probe of that subscriber resolves to something else, the store holds B and no
\* notification with status B is attempted for the subscriber.
Thm_C9 ==
  \A c \in Chats : undelivered[c] # None =>
    /\ store[c].last_known_status = undelivered[c]
    /\ \A j \in Jobs : LET r == job[j] IN
         (r.chat = c /\ r.pc \in SendPcs) => r.current_status # undelivered[c]

\* C9 witness: a later cycle resolved B again for that subscriber and sent nothing.
Witness_C9 ==
  \E j \in Jobs : LET r == job[j] IN
    /\ r.pc = "loop"
    /\ undelivered[r.chat] # None
    /\ r.current_status = undelivered[r.chat]
    /\ r.notified = 0

\* C10: a failure of os.remove after a successful send_photo does not raise out of
\* the job.
Claim_C10 ==
  \A j \in Jobs : ~(job[j].pc = "raised" /\ job[j].fault = "remove")

\* C11: every result of check_vendor_status with status 'Not Available' carries no
\* screenshot path, so the notification of a change to 'Not Available' is a
\* send_message, never a send_photo.
Claim_C11 ==
  \A j \in Jobs : LET r == job[j] IN
    (Dispatched(r) /\ r.fault # "db" /\ r.current_status = "Not Available") =>
       (r.screenshot = None /\ r.pc # "send_photo")

\* C16: a probe that caught an exception returns the Error status of that exception,
\* and returns no path to a file it did not capture (when the error screenshot
\* failed too, the path is None and the notification goes out as text).
Claim_C16 ==
  \A j \in Jobs : LET p == job[j].probe IN
    (p.pc = "returned" /\ p.exc # None) =>
       /\ p.status = ErrorStatus(p.exc)
       /\ p.screenshot_path # None => p.screenshot_path \in p.captured

Claim_C20 ==
  \A j \in Jobs : LET r == job[j] IN
    (IterationOver(r) /\ (r.pc = "loop" \/ r.fault = "send")) => r.screenshot \notin files

\* C17: the standalone monitor emits the availability notification (the 'ACTION
\* REQUIRED' photo) only when the dropdown is visible with more than one option; with
\* no dialog, no quotaMsg element and no dropdown of more than one option, none is sent.
Claim_C17 ==
  Notification("sendPhoto", ACTION_REQUIRED) \in monitor.sent => monitor.page.dropdown > 1

\* The identifier typed, after strip and upper-casing, starts with 'MT' and has
\* exactly 15 characters.
WellFormed(args) ==
  /\ args # <<>>
  /\ LET id == upper(strip(args[1])) IN
       Len(id) = IdLength /\ id[1] = "M" /\ id[2] = "T"

\* C12: add_beneficiary calls add_or_update_user only for a well-formed identifier;
\* for any other argument, or none, it rejects the registration with the store
\* unchanged; and the one-shot job is scheduled only after a well-formed registration
\* the store accepted, never after a rejection or a conflict.
Thm_C12 ==
  [][ /\ (handler.pc = "idle" /\ handler'.pc = "reply") =>
           /\ handler'.called => WellFormed(handler'.args)
           /\ ~WellFormed(handler'.args) =>
                /\ ~handler'.called
                /\ handler'.reply \in {PROVIDE_ID, INVALID_FORMAT}
                /\ store' = store
           /\ store' # store => (handler'.called /\ handler'.success)
      /\ scheduled' # scheduled =>
           /\ handler.pc = "reply" /\ handler.called /\ handler.success
           /\ WellFormed(handler.args)
           /\ scheduled' = scheduled \cup {handler.chat_id}
      /\ (handler.pc = "reply" /\ ~handler.success) => scheduled' = scheduled
    ]_vars

\* C12 witness: a well-formed identifier that another chat owns was refused by the
\* store, and no job is scheduled for the chat that asked.
Witness_C12 ==
  /\ handler.pc = "reply"
  /\ handler.called /\ ~handler.success
  /\ Owners(handler.beneficiary_id) \ {handler.chat_id} # {}
  /\ handler.chat_id \notin scheduled

\* No two rows hold the same beneficiary_id (chat_id is the key of the table).
UniqueRows ==
  \A c, d \in Chats :
    (c # d /\ store[c] # NoRow /\ store[d] # NoRow) =>
       store[c].beneficiary_id # store[d].beneficiary_id

\* The identifier of the last add_or_update_user call was in another chat's row.
OwnedByOther ==
  \E d \in Chats \ {call.chat_id} : call.before[d].beneficiary_id = call.beneficiary_id

\* The last add_or_update_user call replaced the caller's identifier and nothing else.
Replaced ==
  /\ store[call.chat_id] =
       [call.before[call.chat_id] EXCEPT !.beneficiary_id = call.beneficiary_id]
  /\ \A d \in Chats \ {call.chat_id} : store[d] = call.before[d]

Thm_C14 ==
  [][ /\ "Unknown" \notin NewStatuses
      /\ \A c \in Chats :
           (store[c] # NoRow /\ store[c].last_known_status # "Unknown") =>
              (store'[c] # NoRow /\ store'[c].last_known_status # "Unknown")
    ]_vars

\* C14 witness: a chat whose row held the 'Not Available' a probe had returned
\* re-registered with another identifier, and the row still holds that status.
Witness_C14 ==
  /\ call.fn = "add_or_update_user"
  /\ call.returned
  /\ call.before[call.chat_id] # NoRow
  /\ call.before[call.chat_id].last_known_status = "Not Available"
  /\ store[call.chat_id].beneficiary_id = call.beneficiary_id
  /\ store[call.chat_id].beneficiary_id # call.before[call.chat_id].beneficiary_id
  /\ store[call.chat_id].last_known_status = "Not Available"

\* C15: with the one-shot job and the repeating job interleaved, the compare-and-persist
\* step of a job is atomic with respect to the store.  When a probe returns and the job
\* notifies the status, the store did not hold that status already (no change is
\* notified twice); when it notifies nothing, the store holds the status the probe
\* resolved (no change is skipped or left overwritten).
Claim_C15 ==
  [][ \A j \in Jobs : LET r == job'[j] IN
        (job[j].pc = "probing" /\ r.current_status # None /\ r.fault # "db") =>
           /\ r.notified = 1 => store[r.chat].last_known_status # r.current_status
           /\ r.notified = 0 => store'[r.chat].last_known_status = r.current_status
    ]_vars

\* C19: a row's last_known_status is 'Unknown' or was resolved by a probe of the
\* beneficiary_id the row holds.  A step that changes the identifier of a row leaves
\* its status 'Unknown', and a step that changes the status of a row is the return of
\* a probe of the identifier the row holds.
Claim_C19 ==
  [][ \A c \in Chats : store[c] # NoRow =>
        /\ store'[c].beneficiary_id # store[c].beneficiary_id =>
             store'[c].last_known_status = "Unknown"
        /\ store'[c].last_known_status # store[c].last_known_status =>
             \E j \in Jobs : /\ job[j].pc = "probing"
                             /\ job[j].chat = c
                             /\ beneficiary_id(job[j]) = store[c].beneficiary_id
    ]_vars
====
